---- MODULE Spec2Model ----
\* The degree-12 extension field of bn256 (gfp12.go): values x*w + y over the
\* sextic extension, w^2 = tau, with the operations of gfP12 modelled as
\* transformers of a small heap of gfP12 values so that a destination may be the
\* same storage as a source.  The three lower towers (gfP, gfP2, gfP6) are not
\* part of gfp12.go; they are modelled from their contract over a small prime P
\* of the same shape as the curve prime (P = 3 mod 4, P = 1 mod 6, xi = i + 3 a
\* sextic non-residue), so that every value is small enough to enumerate.
EXTENDS Integers, Sequences, FiniteSets, TLC

\* --------------------------------------------------------------- bounds
\* Number of seeds the input elements are derived from.
NumSeeds == 2
\* Largest small exponent handed to Exp.
MaxPow == 6
\* Longest run of successive Frobenius calls.
MaxFrob == 12

\* v is evaluated before w is: steps run in program order.  A tuple for v
\* evaluates its elements from left to right.
Then(v, w) == IF v = v THEN w ELSE w

\* ------------------------------------------------------- base field gfP
\* The modulus of the base field.
P == 7

gfPAdd(a, b) == (a + b) % P
gfPSub(a, b) == (a + P - b) % P
gfPNeg(a) == (P - a) % P
gfPMul(a, b) == (a * b) % P

\* Square and multiply.
RECURSIVE gfPExp(_, _)
gfPExp(a, n) ==
    IF n = 0 THEN 1
    ELSE LET h == gfPExp(a, n \div 2)
             s == gfPMul(h, h)
         IN  Then(<<h, s>>, IF n % 2 = 0 THEN s ELSE gfPMul(a, s))

\* Inversion by Fermat's little theorem; the inverse of 0 is 0.
gfPInvert(a) == gfPExp(a, P - 2)

\* ------------------------------------------- quadratic extension gfP2
\* A gfP2 value is x*i + y with i^2 = -1.
gfP2Of(x, y) == [x |-> x, y |-> y]
gfP2Zero == gfP2Of(0, 0)
gfP2One == gfP2Of(0, 1)

gfP2Add(a, b) == gfP2Of(gfPAdd(a.x, b.x), gfPAdd(a.y, b.y))
gfP2Sub(a, b) == gfP2Of(gfPSub(a.x, b.x), gfPSub(a.y, b.y))
gfP2Neg(a) == gfP2Of(gfPNeg(a.x), gfPNeg(a.y))
gfP2Conjugate(a) == gfP2Of(gfPNeg(a.x), a.y)
gfP2Mul(a, b) ==
    gfP2Of(gfPAdd(gfPMul(a.x, b.y), gfPMul(b.x, a.y)),
           gfPSub(gfPMul(a.y, b.y), gfPMul(a.x, b.x)))
gfP2Square(a) == gfP2Mul(a, a)
gfP2MulScalar(a, k) == gfP2Of(gfPMul(a.x, k), gfPMul(a.y, k))
\* Multiplication by the sextic non-residue xi = i + 3.
gfP2MulXi(a) ==
    gfP2Of(gfPAdd(gfPMul(3, a.x), a.y), gfPSub(gfPMul(3, a.y), a.x))
gfP2Invert(a) ==
    LET inv == gfPInvert(gfPAdd(gfPMul(a.x, a.x), gfPMul(a.y, a.y)))
    IN  Then(inv, gfP2Of(gfPMul(gfPNeg(a.x), inv), gfPMul(a.y, inv)))

RECURSIVE gfP2Exp(_, _)
gfP2Exp(a, n) ==
    IF n = 0 THEN gfP2One
    ELSE LET h == gfP2Exp(a, n \div 2)
             s == gfP2Square(h)
         IN  Then(<<h, s>>, IF n % 2 = 0 THEN s ELSE gfP2Mul(a, s))

xi == gfP2Of(1, 3)

\* The precomputed powers of xi that twist the Frobenius maps.
xiToPMinus1Over6 == gfP2Exp(xi, (P - 1) \div 6)
xiToPMinus1Over3 == gfP2Exp(xi, (P - 1) \div 3)
xiTo2PMinus2Over3 == gfP2Exp(xi, (2 * (P - 1)) \div 3)
xiToPSquaredMinus1Over6 == gfP2Exp(xi, (P * P - 1) \div 6).y
xiToPSquaredMinus1Over3 == gfP2Exp(xi, (P * P - 1) \div 3).y
xiTo2PSquaredMinus2Over3 == gfP2Exp(xi, (2 * (P * P - 1)) \div 3).y

\* ---------------------------------------------- sextic extension gfP6
\* A gfP6 value is x*tau^2 + y*tau + z with tau^3 = xi.
gfP6Of(x, y, z) == [x |-> x, y |-> y, z |-> z]
gfP6Zero == gfP6Of(gfP2Zero, gfP2Zero, gfP2Zero)
gfP6One == gfP6Of(gfP2Zero, gfP2Zero, gfP2One)

gfP6Add(a, b) == gfP6Of(gfP2Add(a.x, b.x), gfP2Add(a.y, b.y), gfP2Add(a.z, b.z))
gfP6Sub(a, b) == gfP6Of(gfP2Sub(a.x, b.x), gfP2Sub(a.y, b.y), gfP2Sub(a.z, b.z))
gfP6Neg(a) == gfP6Of(gfP2Neg(a.x), gfP2Neg(a.y), gfP2Neg(a.z))
gfP6Mul(a, b) ==
    LET xx == gfP2Mul(a.x, b.x)
        xy == gfP2Mul(a.x, b.y)
        xz == gfP2Mul(a.x, b.z)
        yx == gfP2Mul(a.y, b.x)
        yy == gfP2Mul(a.y, b.y)
        yz == gfP2Mul(a.y, b.z)
        zx == gfP2Mul(a.z, b.x)
        zy == gfP2Mul(a.z, b.y)
        zz == gfP2Mul(a.z, b.z)
    IN  gfP6Of(gfP2Add(gfP2Add(xz, yy), zx),
               gfP2Add(gfP2Add(yz, zy), gfP2MulXi(xx)),
               gfP2Add(zz, gfP2MulXi(gfP2Add(xy, yx))))
gfP6Square(a) == gfP6Mul(a, a)
gfP6MulScalar(a, b) == gfP6Of(gfP2Mul(a.x, b), gfP2Mul(a.y, b), gfP2Mul(a.z, b))
gfP6MulGFP(a, k) ==
    gfP6Of(gfP2MulScalar(a.x, k), gfP2MulScalar(a.y, k), gfP2MulScalar(a.z, k))
\* Multiplication by tau.
gfP6MulTau(a) == gfP6Of(a.y, a.z, gfP2MulXi(a.x))
gfP6Frobenius(a) ==
    gfP6Of(gfP2Mul(gfP2Conjugate(a.x), xiTo2PMinus2Over3),
           gfP2Mul(gfP2Conjugate(a.y), xiToPMinus1Over3),
           gfP2Conjugate(a.z))
gfP6FrobeniusP2(a) ==
    gfP6Of(gfP2MulScalar(a.x, xiTo2PSquaredMinus2Over3),
           gfP2MulScalar(a.y, xiToPSquaredMinus1Over3),
           a.z)
gfP6FrobeniusP4(a) ==
    gfP6Of(gfP2MulScalar(a.x, xiToPSquaredMinus1Over3),
           gfP2MulScalar(a.y, xiTo2PSquaredMinus2Over3),
           a.z)
\* Inversion in gfP6.  The inverse of zero is not defined: the caller supplies
\* in junk whatever the routine leaves behind in that case.
gfP6Invert(a, junk) ==
    IF a = gfP6Zero THEN junk
    ELSE
    LET A == gfP2Sub(gfP2Square(a.z), gfP2MulXi(gfP2Mul(a.x, a.y)))
        B == gfP2Sub(gfP2MulXi(gfP2Square(a.x)), gfP2Mul(a.y, a.z))
        C == gfP2Sub(gfP2Square(a.y), gfP2Mul(a.x, a.z))
        F == gfP2Add(gfP2Add(gfP2MulXi(gfP2Mul(C, a.y)), gfP2Mul(A, a.z)),
                     gfP2MulXi(gfP2Mul(B, a.x)))
        Fi == gfP2Invert(F)
    IN  Then(<<A, B, C, F, Fi>>, gfP6Of(gfP2Mul(C, Fi), gfP2Mul(B, Fi), gfP2Mul(A, Fi)))

\* ------------------------------------------------------ the gfP12 heap
\* A gfP12 value is x*w + y with w^2 = tau.  The heap m maps the name of each
\* live value to its contents; a *gfP12 is a name, a *gfP6 is a name with the
\* coordinate it points at ("x" or "y"), or "-" for a gfP6 that stands alone.
gfP12Of(x, y) == [x |-> x, y |-> y]
gfP12Zero == gfP12Of(gfP6Zero, gfP6Zero)
gfP12One == gfP12Of(gfP6Zero, gfP6One)

Load6(m, p) ==
    IF p[2] = "x" THEN m[p[1]].x ELSE IF p[2] = "y" THEN m[p[1]].y ELSE m[p[1]]

\* The values a caller holds, and the locals the operations allocate.
Cells == {"p", "q", "r"}
Locals == {"sum", "t", "t0", "t1", "t2", "tmp", "inv"}

\* The heap a call runs on: the caller's values and room for the locals.
Enter(mem) ==
    [p |-> mem.p, q |-> mem.q, r |-> mem.r,
     sum |-> gfP12Zero, t |-> gfP12Zero, t0 |-> gfP12Zero, t1 |-> gfP12Zero,
     t2 |-> gfP12Zero, tmp |-> gfP12Zero, inv |-> gfP12Zero]
\* What the caller holds when the call has returned.
Leave(m) == [p |-> m.p, q |-> m.q, r |-> m.r]

\* &gfP12{}: a fresh zero-valued local.
Alloc(m, name) == [m EXCEPT ![name] = gfP12Zero]

Set(m, e, a) ==
    LET m1 == [m EXCEPT ![e].x = m[a].x]
    IN  [m1 EXCEPT ![e].y = m1[a].y]

SetZero(m, e) == [m EXCEPT ![e] = gfP12Of(gfP6Zero, gfP6Zero)]

SetOne(m, e) == [m EXCEPT ![e] = gfP12Of(gfP6Zero, gfP6One)]

IsZero(m, e) == m[e].x = gfP6Zero /\ m[e].y = gfP6Zero

IsOne(m, e) == m[e].x = gfP6Zero /\ m[e].y = gfP6One

Conjugate(m, e, a) ==
    LET m1 == [m EXCEPT ![e].x = gfP6Neg(m[a].x)]
    IN  [m1 EXCEPT ![e].y = m1[a].y]

Neg(m, e, a) ==
    LET m1 == [m EXCEPT ![e].x = gfP6Neg(m[a].x)]
    IN  [m1 EXCEPT ![e].y = gfP6Neg(m1[a].y)]

\* Mutant of Frobenius: the twist of x by xiToPMinus1Over6 is lost.
FrobeniusMut(m, e, a) ==
    LET m1 == [m EXCEPT ![e].x = gfP6Frobenius(m[a].x)]
    IN  [m1 EXCEPT ![e].y = gfP6Frobenius(m1[a].y)]

Frobenius(m, e, a) ==
    LET m1 == [m EXCEPT ![e].x = gfP6Frobenius(m[a].x)]
        m2 == [m1 EXCEPT ![e].y = gfP6Frobenius(m1[a].y)]
    IN  [m2 EXCEPT ![e].x = gfP6MulScalar(m2[e].x, xiToPMinus1Over6)]

FrobeniusP2(m, e, a) ==
    LET m1 == [m EXCEPT ![e].x = gfP6FrobeniusP2(m[a].x)]
        m2 == [m1 EXCEPT ![e].x = gfP6MulGFP(m1[e].x, xiToPSquaredMinus1Over6)]
    IN  [m2 EXCEPT ![e].y = gfP6FrobeniusP2(m2[a].y)]

FrobeniusP4(m, e, a) ==
    LET m1 == [m EXCEPT ![e].x = gfP6FrobeniusP4(m[a].x)]
        m2 == [m1 EXCEPT ![e].x = gfP6MulGFP(m1[e].x, xiToPSquaredMinus1Over3)]
    IN  [m2 EXCEPT ![e].y = gfP6FrobeniusP4(m2[a].y)]

Add(m, e, a, b) ==
    LET m1 == [m EXCEPT ![e].x = gfP6Add(m[a].x, m[b].x)]
    IN  [m1 EXCEPT ![e].y = gfP6Add(m1[a].y, m1[b].y)]

Sub(m, e, a, b) ==
    LET m1 == [m EXCEPT ![e].x = gfP6Sub(m[a].x, m[b].x)]
    IN  [m1 EXCEPT ![e].y = gfP6Sub(m1[a].y, m1[b].y)]

Mul(m, e, a, b) ==
    LET tx0 == gfP6Mul(m[a].x, m[b].y)
        t0 == gfP6Mul(m[b].x, m[a].y)
        tx == gfP6Add(tx0, t0)
        ty == gfP6Mul(m[a].y, m[b].y)
        t1 == gfP6Mul(m[a].x, m[b].x)
        t == gfP6MulTau(t1)
    IN  Then(<<tx0, t0, tx, ty, t1, t>>, [m EXCEPT ![e] = gfP12Of(tx, gfP6Add(ty, t))])

\* Mutant of MulScalar: e.y is set to the scalar instead of multiplied by it.
MulScalarMut(m, e, a, b) ==
    LET m1 == [m EXCEPT ![e].x = gfP6Mul(m[a].x, Load6(m, b))]
    IN  [m1 EXCEPT ![e].y = Load6(m1, b)]

\* b is a *gfP6: it is read again after e.x has been written.
MulScalar(m, e, a, b) ==
    LET m1 == [m EXCEPT ![e].x = gfP6Mul(m[a].x, Load6(m, b))]
    IN  [m1 EXCEPT ![e].y = gfP6Mul(m1[a].y, Load6(m1, b))]

\* Mutant of Square: the final ty.Sub(ty, t) is lost.
SquareMut(m, e, a) ==
    LET v0 == gfP6Mul(m[a].x, m[a].y)
        t == gfP6Add(m[a].y, gfP6MulTau(m[a].x))
        ty0 == gfP6Mul(gfP6Add(m[a].x, m[a].y), t)
        ty == gfP6Sub(ty0, v0)
    IN  Then(<<v0, t, ty0, ty>>, [m EXCEPT ![e] = gfP12Of(gfP6Add(v0, v0), ty)])

Square(m, e, a) ==
    LET v0 == gfP6Mul(m[a].x, m[a].y)
        t == gfP6Add(m[a].y, gfP6MulTau(m[a].x))
        ty0 == gfP6Mul(gfP6Add(m[a].x, m[a].y), t)
        ty == gfP6Sub(ty0, v0)
        t2 == gfP6MulTau(v0)
    IN  Then(<<v0, t, ty0, ty, t2>>,
             [m EXCEPT ![e] = gfP12Of(gfP6Add(v0, v0), gfP6Sub(ty, t2))])

\* Implicit gfP4 squaring of x*u + y, u^2 = xi.
gfP4Square(x, y) ==
    LET t1 == gfP2Square(x)
        t2 == gfP2Square(y)
    IN  Then(<<t1, t2>>,
             [retX |-> gfP2Sub(gfP2Sub(gfP2Square(gfP2Add(x, y)), t1), t2),
              retY |-> gfP2Add(gfP2MulXi(t1), t2)])

\* Mutant of Triple: the second addition of each pair is lost.
TripleMut(t) == gfP2Add(t, t)

\* t <- 2t + t, as the pairs f00.Add(t, t); t.Add(f00, t) do.
Triple(t) == gfP2Add(gfP2Add(t, t), t)

\* s1, s2, s3 are the three gfP4Square calls, retX and retY their first and
\* second result.  After f00.MulXi(t02); t02.Set(t10); t10.Set(f00), t02 holds
\* the retY of the third call and t10 holds xi times its retX; the six t are
\* then tripled and added to -2*a.y.* and 2*a.x.* in tmp, and e.Set(tmp).
SquareCyclo6(m, e, a) ==
    LET s1 == gfP4Square(m[a].x.y, m[a].y.z)
        s2 == gfP4Square(m[a].y.x, m[a].x.z)
        s3 == gfP4Square(m[a].x.x, m[a].y.y)
        t00 == Triple(s1.retY)
        t11 == Triple(s1.retX)
        t01 == Triple(s2.retY)
        t12 == Triple(s2.retX)
        t02 == Triple(s3.retY)
        t10 == Triple(gfP2MulXi(s3.retX))
        f00 == gfP2Add(gfP2Neg(gfP2Add(m[a].y.z, m[a].y.z)), t00)
        f01 == gfP2Add(gfP2Neg(gfP2Add(m[a].y.y, m[a].y.y)), t01)
        f02 == gfP2Add(gfP2Neg(gfP2Add(m[a].y.x, m[a].y.x)), t02)
        f10 == gfP2Add(gfP2Add(m[a].x.z, m[a].x.z), t10)
        f11 == gfP2Add(gfP2Add(m[a].x.y, m[a].x.y), t11)
        f12 == gfP2Add(gfP2Add(m[a].x.x, m[a].x.x), t12)
        m1 == [Alloc(m, "tmp") EXCEPT
                  !["tmp"] = gfP12Of(gfP6Of(f12, f11, f10), gfP6Of(f02, f01, f00))]
    IN  Then(<<s1, s2, s3, t00, t11, t01, t12, t02, t10, f00, f01, f02, f10, f11, f12>>,
             Set(m1, e, "tmp"))

\* Mutant of Invert: e.x is set to a.x, not to its negation.
InvertNoNeg(m, e, a, junk) ==
    LET t1 == gfP6Sub(gfP6Square(m[a].y), gfP6MulTau(gfP6Square(m[a].x)))
        m0 == [m EXCEPT !["inv"] = gfP6Invert(t1, junk)]
        m1 == [m0 EXCEPT ![e].x = m0[a].x]
        m2 == [m1 EXCEPT ![e].y = m1[a].y]
    IN  Then(t1, MulScalar(m2, e, e, <<"inv", "-">>))

\* Mutant of Invert: the norm is taken as y^2 + tau*x^2.
InvertPlusNorm(m, e, a, junk) ==
    LET t1 == gfP6Add(gfP6Square(m[a].y), gfP6MulTau(gfP6Square(m[a].x)))
        m0 == [m EXCEPT !["inv"] = gfP6Invert(t1, junk)]
        m1 == [m0 EXCEPT ![e].x = gfP6Neg(m0[a].x)]
        m2 == [m1 EXCEPT ![e].y = m1[a].y]
    IN  Then(t1, MulScalar(m2, e, e, <<"inv", "-">>))

Invert(m, e, a, junk) ==
    LET t1 == gfP6Sub(gfP6Square(m[a].y), gfP6MulTau(gfP6Square(m[a].x)))
        m0 == [m EXCEPT !["inv"] = gfP6Invert(t1, junk)]
        m1 == [m0 EXCEPT ![e].x = gfP6Neg(m0[a].x)]
        m2 == [m1 EXCEPT ![e].y = m1[a].y]
    IN  Then(t1, MulScalar(m2, e, e, <<"inv", "-">>))

\* -------------------------------------------------------------- big.Int
\* A non-negative big.Int is its words, least significant first, with no
\* leading zero word; a word holds WordBits bits.
WordBits == 15
Base == 32768

Pow2(k) == 2 ^ k

\* The bit length of a word: the number of powers of two that do not exceed it.
NatBitLen(n) == Cardinality({k \in 0..(WordBits - 1) : Pow2(k) <= n})

RECURSIVE NatWords(_)
NatWords(n) == IF n = 0 THEN <<>> ELSE <<n % Base>> \o NatWords(n \div Base)

BitLen(power) ==
    IF power = <<>> THEN 0
    ELSE WordBits * (Len(power) - 1) + NatBitLen(power[Len(power)])

Bit(power, i) ==
    IF i \div WordBits >= Len(power) THEN 0
    ELSE (power[(i \div WordBits) + 1] \div Pow2(i % WordBits)) % 2

Word(s, i) == IF i <= Len(s) THEN s[i] ELSE 0

RECURSIVE Trim(_)
Trim(s) ==
    IF s = <<>> THEN s
    ELSE IF s[Len(s)] = 0 THEN Trim(SubSeq(s, 1, Len(s) - 1)) ELSE s

\* Schoolbook addition, word by word with a carry.
RECURSIVE AddWords(_, _, _, _)
AddWords(s, t, i, carry) ==
    IF i > Len(s) /\ i > Len(t) THEN (IF carry = 0 THEN <<>> ELSE <<carry>>)
    ELSE LET d == Word(s, i) + Word(t, i) + carry
         IN  <<d % Base>> \o AddWords(s, t, i + 1, d \div Base)
BigAdd(s, t) == Trim(AddWords(s, t, 1, 0))

\* s times the single word w.
RECURSIVE MulWord(_, _, _, _)
MulWord(s, w, i, carry) ==
    IF i > Len(s) THEN (IF carry = 0 THEN <<>> ELSE <<carry>>)
    ELSE LET d == s[i] * w + carry
         IN  <<d % Base>> \o MulWord(s, w, i + 1, d \div Base)

RECURSIVE BigMul(_, _)
BigMul(s, t) ==
    IF s = <<>> \/ t = <<>> THEN <<>>
    ELSE LET rest == BigMul(Tail(s), t)
             shifted == IF rest = <<>> THEN <<>> ELSE <<0>> \o rest
         IN  BigAdd(Trim(MulWord(t, Head(s), 1, 0)), shifted)

\* The value of a decimal numeral, most significant digit first: acc is the
\* value of the digits before position lo, and digits lo..hi are appended.
RECURSIVE DecimalFrom(_, _, _, _)
DecimalFrom(ds, lo, hi, acc) ==
    IF lo > hi THEN acc
    ELSE IF lo = hi THEN BigAdd(Trim(MulWord(acc, 10, 1, 0)), NatWords(ds[lo]))
    ELSE LET mid == (lo + hi) \div 2
             acc1 == DecimalFrom(ds, lo, mid, acc)
         IN  Then(acc1, DecimalFrom(ds, mid + 1, hi, acc1))
FromDecimal(ds) == DecimalFrom(ds, 1, Len(ds), <<>>)

\* ------------------------------------------------------- exponentiation
\* Mutant of ExpStep: the multiplication takes sum, not its square t.
ExpStepMut(m, a, power, i) ==
    LET m1 == Square(m, "t", "sum")
    IN  Then(m1, IF Bit(power, i) # 0 THEN Mul(m1, "sum", "sum", a)
                 ELSE Set(m1, "sum", "t"))

\* One pass of the loop body, for bit i of power.
ExpStep(m, a, power, i) ==
    LET m1 == Square(m, "t", "sum")
    IN  Then(m1, IF Bit(power, i) # 0 THEN Mul(m1, "sum", "t", a)
                 ELSE Set(m1, "sum", "t"))

\* The passes for i = hi, hi - 1, ..., lo, in that order.
RECURSIVE ExpLoop(_, _, _, _, _)
ExpLoop(m, a, power, hi, lo) ==
    IF hi < lo THEN m
    ELSE IF hi = lo THEN ExpStep(m, a, power, hi)
    ELSE LET mid == (hi + lo) \div 2
             m1 == ExpLoop(m, a, power, hi, mid + 1)
         IN  Then(m1, ExpLoop(m1, a, power, mid, lo))

Exp(m, c, a, power) ==
    LET m0 == SetOne(Alloc(Alloc(m, "sum"), "t"), "sum")
        m1 == ExpLoop(m0, a, power, BitLen(power) - 1, 0)
    IN  Then(m0, Then(m1, Set(m1, c, "sum")))

\* The body of powToVCyclo6 as the calls it makes, in order.
Call(op, e, a, b) == [op |-> op, e |-> e, a |-> a, b |-> b]
Sq(e, a) == Call("SquareCyclo6", e, a, a)

\* Mutant of powToVCyclo6Code: six squarings, not seven, after a^57.
powToVCyclo6CodeMut(e, a) ==
    << Sq("t0", a), Sq("t0", "t0"), Sq("t0", "t0"),
       Sq("t1", "t0"), Sq("t1", "t1"), Sq("t1", "t1"),
       Call("Conjugate", "t2", "t0", "t0"),
       Call("Mul", "t2", "t2", a),
       Call("Mul", "t2", "t2", "t1"),
       Sq("t2", "t2"), Sq("t2", "t2"), Sq("t2", "t2"), Sq("t2", "t2"),
       Sq("t2", "t2"), Sq("t2", "t2"),
       Call("Mul", "t2", "t2", a),
       Sq("t2", "t2"), Sq("t2", "t2"), Sq("t2", "t2"), Sq("t2", "t2"),
       Sq("t2", "t2"), Sq("t2", "t2"), Sq("t2", "t2"), Sq("t2", "t2"),
       Call("Mul", e, "t2", a) >>

powToVCyclo6Code(e, a) ==
    << Sq("t0", a), Sq("t0", "t0"), Sq("t0", "t0"),
       Sq("t1", "t0"), Sq("t1", "t1"), Sq("t1", "t1"),
       Call("Conjugate", "t2", "t0", "t0"),
       Call("Mul", "t2", "t2", a),
       Call("Mul", "t2", "t2", "t1"),
       Sq("t2", "t2"), Sq("t2", "t2"), Sq("t2", "t2"), Sq("t2", "t2"),
       Sq("t2", "t2"), Sq("t2", "t2"), Sq("t2", "t2"),
       Call("Mul", "t2", "t2", a),
       Sq("t2", "t2"), Sq("t2", "t2"), Sq("t2", "t2"), Sq("t2", "t2"),
       Sq("t2", "t2"), Sq("t2", "t2"), Sq("t2", "t2"), Sq("t2", "t2"),
       Call("Mul", e, "t2", a) >>

Step(m, c) ==
    CASE c.op = "SquareCyclo6" -> SquareCyclo6(m, c.e, c.a)
      [] c.op = "Conjugate" -> Conjugate(m, c.e, c.a)
      [] c.op = "Mul" -> Mul(m, c.e, c.a, c.b)
      [] c.op = "Square" -> Square(m, c.e, c.a)

\* The calls code[lo], ..., code[hi], in that order.
RECURSIVE Run(_, _, _, _)
Run(m, code, lo, hi) ==
    IF lo > hi THEN m
    ELSE IF lo = hi THEN Step(m, code[lo])
    ELSE LET mid == (lo + hi) \div 2
             m1 == Run(m, code, lo, mid)
         IN  Then(m1, Run(m1, code, mid + 1, hi))

powToVCyclo6(m, e, a) ==
    Run(Alloc(Alloc(Alloc(m, "t0"), "t1"), "t2"),
        powToVCyclo6Code(e, a), 1, Len(powToVCyclo6Code(e, a)))

\* Mutant of PowToUCyclo6: two calls of powToVCyclo6, not three.
PowToUCyclo6Mut(m, e, a) ==
    LET m1 == powToVCyclo6(m, e, a)
    IN  Then(m1, powToVCyclo6(m1, e, e))

PowToUCyclo6(m, e, a) ==
    LET m1 == powToVCyclo6(m, e, a)
        m2 == powToVCyclo6(m1, e, e)
    IN  Then(m1, Then(m2, powToVCyclo6(m2, e, e)))

\* --------------------------------------------- operations on plain values
\* Each operation run with three distinct values: the sources in p and q, the
\* destination r.
Fresh(va, vb) == Enter([p |-> va, q |-> vb, r |-> gfP12Zero])

ConjugateV(va) == Then(va, Conjugate(Fresh(va, va), "r", "p")["r"])
MulV(va, vb) == Then(<<va, vb>>, Mul(Fresh(va, vb), "r", "p", "q")["r"])
SquareV(va) == Then(va, Square(Fresh(va, va), "r", "p")["r"])
ExpV(va, power) == Then(<<va, power>>, Exp(Fresh(va, va), "r", "p", power)["r"])

\* ---------------------------------------------------------------- inputs
\* The element with seed k: its twelve base-field coordinates.
Coord(k, j) == (k * j * j + 3 * j + k) % P
Elem(k) ==
    gfP12Of(gfP6Of(gfP2Of(Coord(k, 1), Coord(k, 2)), gfP2Of(Coord(k, 3), Coord(k, 4)),
                   gfP2Of(Coord(k, 5), Coord(k, 6))),
            gfP6Of(gfP2Of(Coord(k, 7), Coord(k, 8)), gfP2Of(Coord(k, 9), Coord(k, 10)),
                   gfP2Of(Coord(k, 11), Coord(k, 12))))

\* v^(p^6 - 1), which is conjugate(v) / v: an element of norm 1.
UnitaryOf(v) == ExpV(v, NatWords(P * P * P * P * P * P - 1))
\* v^((p^6 - 1)(p^2 + 1)), the easy part of the final exponentiation: an
\* element of the cyclotomic subgroup, of order dividing p^4 - p^2 + 1.
CycloOf(v) == ExpV(UnitaryOf(v), NatWords(P * P + 1))

Samples ==
    {gfP12Zero, gfP12One}
        \cup {Elem(k) : k \in 1..NumSeeds}
        \cup {UnitaryOf(Elem(k)) : k \in 1..NumSeeds}
        \cup {CycloOf(Elem(k)) : k \in 1..NumSeeds}

\* The fixed exponent of the final exponentiation, and its factor.
v == NatWords(1868033)
u == BigMul(v, BigMul(v, v))

\* The exponents handed to Exp.
Powers == {NatWords(k) : k \in 0..(2 * MaxPow)} \cup {v, u}

\* What an inversion of the gfP6 zero may leave behind.
Junk == {gfP6Zero, gfP6One, Elem(1).x}

\* ----------------------------------------------------------------- state
VARIABLES
    mem,    \* the caller's values: Cells -> gfP12
    orig,   \* the values before the first call
    last,   \* the last call made: operation and operands
    count,  \* how many calls have been made
    trace   \* the calls powToVCyclo6 made, each with the exponent it produced

vars == <<mem, orig, last, count, trace>>

NoB == <<"p", "-">>
CallOf(op, e, a, b, power) ==
    [op |-> op, e |-> e, a |-> a, b |-> b, power |-> power, junk |-> gfP6Zero]

\* p holds any of the inputs; q holds an element of no special form and r an
\* element of the cyclotomic subgroup.
Init ==
    /\ mem \in {[p |-> s, q |-> Elem(5), r |-> CycloOf(Elem(4))] : s \in Samples}
    /\ orig = mem
    /\ last = CallOf("none", "p", "p", NoB, <<>>)
    /\ count = 0
    /\ trace = <<>>

\* A first call returning with heap m.
Return(m, call) ==
    /\ count = 0
    /\ mem' = Leave(m)
    /\ last' = call
    /\ count' = 1
    /\ UNCHANGED orig

\* ------------------------------------------------- exponents along a chain
\* Each SquareCyclo6 doubles the exponent, Conjugate negates it and Mul adds
\* the exponents of its operands; ex maps a value's name to its exponent.
ChainStep(st, c) ==
    LET ex == st.ex
        n == CASE c.op = "SquareCyclo6" -> 2 * ex[c.a]
               [] c.op = "Square" -> 2 * ex[c.a]
               [] c.op = "Conjugate" -> 0 - ex[c.a]
               [] c.op = "Mul" -> ex[c.a] + ex[c.b]
    IN  [ex |-> [ex EXCEPT ![c.e] = n],
         tr |-> Append(st.tr, [op |-> c.op, exp |-> n])]

RECURSIVE ChainRun(_, _, _, _)
ChainRun(st, code, lo, hi) ==
    IF lo > hi THEN st
    ELSE IF lo = hi THEN ChainStep(st, code[lo])
    ELSE LET mid == (lo + hi) \div 2
             st1 == ChainRun(st, code, lo, mid)
         IN  Then(st1, ChainRun(st1, code, mid + 1, hi))

Chain(code, a) ==
    ChainRun([ex |-> [c \in Cells \cup Locals |-> IF c = a THEN 1 ELSE 0], tr |-> <<>>],
             code, 1, Len(code)).tr

\* ---------------------------------------------------------------- actions
SetCall ==
    \E e, a \in Cells :
        /\ Return(Set(Enter(mem), e, a), CallOf("Set", e, a, NoB, <<>>))
        /\ trace' = <<>>

\* e.SetZero() and e.SetOne() take no source: the call record names e twice.
SetZeroCall ==
    \E e \in Cells :
        /\ Return(SetZero(Enter(mem), e), CallOf("SetZero", e, e, NoB, <<>>))
        /\ trace' = <<>>

SetOneCall ==
    \E e \in Cells :
        /\ Return(SetOne(Enter(mem), e), CallOf("SetOne", e, e, NoB, <<>>))
        /\ trace' = <<>>

NegCall ==
    \E e, a \in Cells :
        /\ Return(Neg(Enter(mem), e, a), CallOf("Neg", e, a, NoB, <<>>))
        /\ trace' = <<>>

ConjugateCall ==
    \E e, a \in Cells :
        /\ Return(Conjugate(Enter(mem), e, a), CallOf("Conjugate", e, a, NoB, <<>>))
        /\ trace' = <<>>

\* e.Frobenius(a), and after it e.Frobenius(e) again and again.
FrobeniusCall ==
    \/ \E e, a \in Cells :
        /\ Return(Frobenius(Enter(mem), e, a), CallOf("Frobenius", e, a, NoB, <<>>))
        /\ trace' = <<>>
    \/ /\ last.op = "Frobenius"
       /\ count >= 1
       /\ count < MaxFrob
       /\ mem' = Leave(Frobenius(Enter(mem), last.e, last.e))
       /\ count' = count + 1
       /\ UNCHANGED <<orig, last, trace>>

FrobeniusP2Call ==
    \E e, a \in Cells :
        /\ Return(FrobeniusP2(Enter(mem), e, a), CallOf("FrobeniusP2", e, a, NoB, <<>>))
        /\ trace' = <<>>

FrobeniusP4Call ==
    \E e, a \in Cells :
        /\ Return(FrobeniusP4(Enter(mem), e, a), CallOf("FrobeniusP4", e, a, NoB, <<>>))
        /\ trace' = <<>>

AddCall ==
    \E e, a, b \in Cells :
        /\ Return(Add(Enter(mem), e, a, b), CallOf("Add", e, a, <<b, "-">>, <<>>))
        /\ trace' = <<>>

SubCall ==
    \E e, a, b \in Cells :
        /\ Return(Sub(Enter(mem), e, a, b), CallOf("Sub", e, a, <<b, "-">>, <<>>))
        /\ trace' = <<>>

MulCall ==
    \E e, a, b \in Cells :
        /\ Return(Mul(Enter(mem), e, a, b), CallOf("Mul", e, a, <<b, "-">>, <<>>))
        /\ trace' = <<>>

\* The scalar is any gfP6 the caller can point at: a coordinate of a value.
MulScalarCall ==
    \E e, a \in Cells, b \in Cells \X {"x", "y"} :
        /\ Return(MulScalar(Enter(mem), e, a, b), CallOf("MulScalar", e, a, b, <<>>))
        /\ trace' = <<>>

ExpCall ==
    \E c, a \in Cells, power \in Powers :
        /\ Return(Exp(Enter(mem), c, a, power), CallOf("Exp", c, a, NoB, power))
        /\ trace' = <<>>

SquareCall ==
    \E e, a \in Cells :
        /\ Return(Square(Enter(mem), e, a), CallOf("Square", e, a, NoB, <<>>))
        /\ trace' = <<>>

SquareCyclo6Call ==
    \E e, a \in Cells :
        /\ Return(SquareCyclo6(Enter(mem), e, a), CallOf("SquareCyclo6", e, a, NoB, <<>>))
        /\ trace' = <<>>

powToVCyclo6Call ==
    \E e, a \in Cells :
        /\ Return(powToVCyclo6(Enter(mem), e, a), CallOf("powToVCyclo6", e, a, NoB, <<>>))
        /\ trace' = Chain(powToVCyclo6Code(e, a), a)

PowToUCyclo6Call ==
    \E e, a \in Cells :
        /\ Return(PowToUCyclo6(Enter(mem), e, a), CallOf("PowToUCyclo6", e, a, NoB, <<>>))
        /\ trace' = <<>>

\* The inversion of the gfP6 zero, which happens for a = 0 alone, leaves any of
\* Junk behind; the call record keeps which.
InvertCall ==
    \E e, a \in Cells :
        \E junk \in (IF IsZero(mem, a) THEN Junk ELSE {gfP6Zero}) :
            /\ Return(Invert(Enter(mem), e, a, junk),
                      [CallOf("Invert", e, a, NoB, <<>>) EXCEPT !.junk = junk])
            /\ trace' = <<>>

Next ==
    \/ SetCall
    \/ SetZeroCall
    \/ SetOneCall
    \/ NegCall
    \/ ConjugateCall
    \/ FrobeniusCall
    \/ FrobeniusP2Call
    \/ FrobeniusP4Call
    \/ AddCall
    \/ SubCall
    \/ MulCall
    \/ MulScalarCall
    \/ ExpCall
    \/ SquareCall
    \/ SquareCyclo6Call
    \/ powToVCyclo6Call
    \/ PowToUCyclo6Call
    \/ InvertCall

Spec == Init /\ [][Next]_vars

\* ---------------------------------------------------------------- claims
\* The source value and the result of the last call, and the first call made.
A0 == orig[last.a]
B0 == orig[last.b[1]]
R == mem[last.e]
Called(op) == last.op = op /\ count = 1

FrobeniusV(va) == Then(va, Frobenius(Fresh(va, va), "r", "p")["r"])

\* conjugate(a) * a = one: the spec's "cyclotomic subgroup" (norm 1).
Norm1(va) == MulV(ConjugateV(va), va) = gfP12One
\* a^(p^4 - p^2 + 1) = one: the cyclotomic subgroup proper.
CycloOrder == P * P * P * P - P * P + 1
InCyclo(va) == ExpV(va, NatWords(CycloOrder)) = gfP12One
Trivial(va) == va = gfP12Zero \/ va = gfP12One

\* C1 as stated: for every a of norm 1 (conjugate(a) * a = one),
\* SquareCyclo6(a) equals Square(a).
C1_Norm1Square == Called("SquareCyclo6") /\ Norm1(A0) => R = SquareV(A0)

\* C1, amended: for every a of the cyclotomic subgroup proper, a^(p^4-p^2+1) = one,
\* SquareCyclo6(a) equals Square(a) coordinate for coordinate.
C1_CycloSquare == Called("SquareCyclo6") /\ InCyclo(A0) => R = SquareV(A0)

C1_Witness ==
    /\ Called("SquareCyclo6")
    /\ InCyclo(A0)
    /\ ~Trivial(A0)
    /\ R = SquareV(A0)
    /\ R = MulV(A0, A0)

\* The numeral the claim gives for u, and the value of 1868033^3.
uClaimed == FromDecimal(<<6, 5, 2, 1, 9, 0, 8, 2, 1, 3, 9, 2, 1, 9, 9, 2, 2, 5, 7>>)
uCubed == FromDecimal(<<6, 5, 1, 8, 5, 8, 9, 4, 9, 1, 0, 7, 8, 7, 9, 1, 9, 3, 7>>)

\* C2 as stated: for every a of the cyclotomic subgroup, PowToUCyclo6(a) equals
\* Exp(a, 6521908213921992257), the numeral given for u = 1868033^3.
C2_PowToUClaimed ==
    Called("PowToUCyclo6") /\ InCyclo(A0) => R = ExpV(A0, uClaimed)

\* C2, amended: for every a of the cyclotomic subgroup proper, PowToUCyclo6(a)
\* equals Exp(a, u) with u = 1868033^3 = 6518589491078791937.
C2_PowToU ==
    Called("PowToUCyclo6") /\ InCyclo(A0) => u = uCubed /\ R = ExpV(A0, u)

C2_Witness ==
    /\ Called("PowToUCyclo6")
    /\ InCyclo(A0)
    /\ ~Trivial(A0)
    /\ R = ExpV(A0, u)
    /\ R # ExpV(A0, uClaimed)

\* C3: for every a, Square(a) is the same element as Mul(a, a): x = 2*a.x*a.y
\* and y = a.y^2 + tau*a.x^2.
C3_SquareIsMul ==
    Called("Square") =>
        /\ R = MulV(A0, A0)
        /\ R.x = gfP6Add(gfP6Mul(A0.x, A0.y), gfP6Mul(A0.x, A0.y))
        /\ R.y = gfP6Add(gfP6Square(A0.y), gfP6MulTau(gfP6Square(A0.x)))

C3_Witness ==
    /\ Called("Square")
    /\ ~Trivial(A0)
    /\ ~Norm1(A0)
    /\ last.e = last.a
    /\ R = MulV(A0, A0)

\* C4: for every a other than zero, Mul(Invert(a), a) is the one element, and
\* Invert(a) is (-a.x, a.y) scaled by the inverse of a.y^2 - tau*a.x^2.
C4_InvertMul ==
    Called("Invert") /\ A0 # gfP12Zero =>
        /\ IsOne(Mul(Fresh(R, A0), "r", "p", "q"), "r")
        /\ LET n == gfP6Sub(gfP6Square(A0.y), gfP6MulTau(gfP6Square(A0.x)))
           IN  /\ gfP6Mul(R.x, n) = gfP6Neg(A0.x)
               /\ gfP6Mul(R.y, n) = A0.y

C4_Witness ==
    /\ Called("Invert")
    /\ ~Trivial(A0)
    /\ ~Norm1(A0)
    /\ MulV(R, A0) = gfP12One

\* The scalar MulScalar was handed, as it was before the call.
Scalar0 == Load6(Enter(orig), last.b)

\* Frobenius applied k times in succession.
RECURSIVE FrobeniusTimes(_, _)
FrobeniusTimes(va, k) ==
    IF k = 0 THEN va
    ELSE IF k = 1 THEN FrobeniusV(va)
    ELSE LET h == FrobeniusTimes(va, k \div 2)
         IN  Then(h, FrobeniusTimes(h, k - (k \div 2)))

\* The last call run on copies of its operands, with a destination of its own.
Reference ==
    LET m == Fresh(A0, B0)
    IN  CASE last.op = "Set" -> Set(m, "r", "p")["r"]
          [] last.op = "SetZero" -> SetZero(m, "r")["r"]
          [] last.op = "SetOne" -> SetOne(m, "r")["r"]
          [] last.op = "Neg" -> Neg(m, "r", "p")["r"]
          [] last.op = "Conjugate" -> Conjugate(m, "r", "p")["r"]
          [] last.op = "Frobenius" -> FrobeniusTimes(A0, count)
          [] last.op = "FrobeniusP2" -> FrobeniusP2(m, "r", "p")["r"]
          [] last.op = "FrobeniusP4" -> FrobeniusP4(m, "r", "p")["r"]
          [] last.op = "Add" -> Add(m, "r", "p", "q")["r"]
          [] last.op = "Sub" -> Sub(m, "r", "p", "q")["r"]
          [] last.op = "Mul" -> Mul(m, "r", "p", "q")["r"]
          [] last.op = "MulScalar" ->
                MulScalar(Fresh(A0, gfP12Of(Scalar0, Scalar0)), "r", "p", <<"q", "x">>)["r"]
          [] last.op = "Exp" -> Exp(m, "r", "p", last.power)["r"]
          [] last.op = "Square" -> Square(m, "r", "p")["r"]
          [] last.op = "SquareCyclo6" -> SquareCyclo6(m, "r", "p")["r"]
          [] last.op = "powToVCyclo6" -> powToVCyclo6(m, "r", "p")["r"]
          [] last.op = "PowToUCyclo6" -> PowToUCyclo6(m, "r", "p")["r"]
          [] last.op = "Invert" -> Invert(m, "r", "p", last.junk)["r"]

\* C5: every mutating operation may alias its destination, or a coordinate of
\* it, with any source operand: the destination ends with the value the
\* operation gives with a distinct destination on copies of the operands.
C5_AliasSafe == count >= 1 => R = Reference

\* The calls C5 fails for: MulScalar with the scalar in the destination's x.
ScalarInDestinationX == last.op = "MulScalar" /\ last.b = <<last.e, "x">>
C5_AliasSafeButScalar == count >= 1 /\ ~ScalarInDestinationX => R = Reference

\* C6 as stated: applying Frobenius six times in succession returns a itself.
C6_SixTimes == last.op = "Frobenius" /\ count = 6 => R = A0

\* C6, amended: applying Frobenius six times in succession returns
\* Conjugate(a), and applying it twelve times returns a itself.
C6_TwelveTimes ==
    /\ last.op = "Frobenius" /\ count = 6 => R = ConjugateV(A0)
    /\ last.op = "Frobenius" /\ count = 12 => R = A0

C6_Witness ==
    /\ last.op = "Frobenius"
    /\ count = 12
    /\ ~Trivial(A0)
    /\ R = A0
    /\ R # ConjugateV(A0)

\* C7: for every a and all non-negative m and n, Exp(a, m+n) equals
\* Mul(Exp(a, m), Exp(a, n)); Exp(a, 0) is the one element and Exp(a, 1) is a.
C7_ExpAdditive ==
    Called("Exp") =>
        /\ \A m, n \in 0..MaxPow :
              last.power = NatWords(m + n) =>
                  R = MulV(ExpV(A0, NatWords(m)), ExpV(A0, NatWords(n)))
        /\ last.power = NatWords(0) => R = gfP12One
        /\ last.power = NatWords(1) => R = A0

C7_Witness ==
    /\ Called("Exp")
    /\ last.power = NatWords(2 * MaxPow - 1)
    /\ ~Trivial(A0)
    /\ R = MulV(ExpV(A0, NatWords(MaxPow)), ExpV(A0, NatWords(MaxPow - 1)))
    /\ R # A0

\* The exponents the chain reaches after its 3rd, 6th, 7th, 8th, 9th, 16th,
\* 17th and 25th call, and the number of calls of each operation.
Milestones ==
    <<trace[3].exp, trace[6].exp, trace[7].exp, trace[8].exp, trace[9].exp,
      trace[16].exp, trace[17].exp, trace[25].exp>>
CallsOf(op) == Cardinality({i \in 1..Len(trace) : trace[i].op = op})

\* C8: with SquareCyclo6 doubling the exponent, Conjugate negating it and Mul
\* adding exponents, powToVCyclo6 raises its input to exactly 1868033, through
\* the exponents 8, 64, -8, -7, 57, 7296, 7297 and 1868032 in that order, with
\* 21 cyclotomic squarings and 4 multiplications and no generic Square; on the
\* cyclotomic subgroup the value it returns is Exp(a, 1868033).
C8_Chain ==
    Called("powToVCyclo6") =>
        /\ Len(trace) = 26
        /\ Milestones = <<8, 64, -8, -7, 57, 7296, 7297, 1868032>>
        /\ trace[26].exp = 1868033
        /\ \A i \in 1..25 : trace[i].exp # 1868033
        /\ CallsOf("SquareCyclo6") = 21
        /\ CallsOf("Mul") = 4
        /\ CallsOf("Square") = 0
        /\ CallsOf("SquareCyclo6") + CallsOf("Mul") = 25
        /\ InCyclo(A0) => R = ExpV(A0, v)

C8_Witness ==
    /\ Called("powToVCyclo6")
    /\ InCyclo(A0)
    /\ ~Trivial(A0)
    /\ trace[26] = [op |-> "Mul", exp |-> 1868033]
    /\ R = ExpV(A0, v)

\* C9: for every a with conjugate(a) * a = one, Invert(a) equals Conjugate(a).
C9_InvertIsConjugate == Called("Invert") /\ Norm1(A0) => R = ConjugateV(A0)

C9_Witness ==
    /\ Called("Invert")
    /\ Norm1(A0)
    /\ ~InCyclo(A0)
    /\ R = ConjugateV(A0)

\* C10: Invert of the zero element runs to completion and, whatever the gfP6
\* inversion of zero returns, leaves the destination zero, so that
\* Mul(Invert(0), 0) is not the one element.
C10_InvertZero ==
    Called("Invert") /\ A0 = gfP12Zero =>
        /\ R = gfP12Zero
        /\ MulV(R, A0) # gfP12One

C10_Witness ==
    /\ Called("Invert")
    /\ A0 = gfP12Zero
    /\ last.junk = gfP6One
    /\ last.e # last.a
    /\ R = gfP12Zero

====
